---------------------------- MODULE Spec2Model ----------------------------
(***************************************************************************)
(* Model of the pricing service of backend/app/main.py: the DataStore      *)
(* cache (refresh_once / ensure_fresh under an asyncio.Lock), the CSV      *)
(* loader and its numeric coercion, and the quote engine                   *)
(* (_resolve_uplifts, _calculate_sku_quote, the /quote handler).           *)
(*                                                                         *)
(* Conventions.                                                            *)
(*  - Text is a sequence of tokens.  A token is one character (" ", ",",   *)
(*    "$", "%", ".", "-", a digit, a letter) or an opaque chunk of text     *)
(*    without surrounding white space ("SKU Code").                        *)
(*  - A float is modelled as an exact rational [n, d] in lowest terms      *)
(*    with d > 0; rounding of IEEE doubles is not modelled.                 *)
(*  - A Python dict is a sequence of [k, v] pairs with distinct keys, in   *)
(*    insertion order (a re-assigned key keeps its place).                 *)
(*  - An optional value is <<>> (None) or <<x>>.                           *)
(*  - A fallible computation returns [ok |-> TRUE, val |-> v] or           *)
(*    [ok |-> FALSE, err |-> e].                                           *)
(***************************************************************************)
EXTENDS Integers, Sequences, FiniteSets, TLC

\* ------------------------------------------------------------------ bounds
NumCallers == 2
MaxTime == 900
TickStep == 300
MaxTierRows == 2
MaxNames == 3

\* --------------------------------------------------------- program constants
REFRESH_SECONDS == 600

\* ------------------------------------------------------------- option, result
None == <<>>
Some(x) == <<x>>
IsNone(o) == o = <<>>
The(o) == o[1]

Ok(v) == [ok |-> TRUE, val |-> v]
Err(e) == [ok |-> FALSE, err |-> e]

\* ------------------------------------------------------------------ rationals
Abs(i) == IF i < 0 THEN -i ELSE i

RECURSIVE Gcd(_, _)
Gcd(a, b) == IF b = 0 THEN a ELSE Gcd(b, a % b)

Rat(n, d) ==
  LET Reduced(g, sign) == [n |-> (sign * n) \div g, d |-> (sign * d) \div g]
  IN  Reduced(Gcd(Abs(n), Abs(d)), IF d < 0 THEN -1 ELSE 1)

Int2Rat(i) == [n |-> i, d |-> 1]
RZero == Int2Rat(0)
ROne == Int2Rat(1)
RAdd(a, b) == Rat(a.n * b.d + b.n * a.d, a.d * b.d)
RSub(a, b) == Rat(a.n * b.d - b.n * a.d, a.d * b.d)
RMul(a, b) == Rat(a.n * b.n, a.d * b.d)
RDiv(a, b) == Rat(a.n * b.d, a.d * b.n)
RLe(a, b) == a.n * b.d <= b.n * a.d
RLt(a, b) == a.n * b.d < b.n * a.d

\* ----------------------------------------------------------------------- dict
RECURSIVE DictIndex(_, _)
DictIndex(d, k) ==
  IF d = <<>> THEN 0
  ELSE IF d[Len(d)].k = k THEN Len(d)
  ELSE DictIndex(SubSeq(d, 1, Len(d) - 1), k)

DictHas(d, k) == DictIndex(d, k) # 0
DictGet(d, k) == d[DictIndex(d, k)].v
DictPut(d, k, v) ==
  IF DictHas(d, k)
  THEN [d EXCEPT ![DictIndex(d, k)] = [k |-> k, v |-> v]]
  ELSE Append(d, [k |-> k, v |-> v])
DictKeys(d) == [i \in 1..Len(d) |-> d[i].k]
DictValues(d) == [i \in 1..Len(d) |-> d[i].v]
DictKeySet(d) == {d[i].k : i \in 1..Len(d)}

\* ------------------------------------------------------- numeric coercion
Digits == <<"0", "1", "2", "3", "4", "5", "6", "7", "8", "9">>
DigitSet == {Digits[i] : i \in 1..10}
DigitVal(ch) == (CHOOSE i \in 1..10 : Digits[i] = ch) - 1

UpperCase == <<"T", "R", "U", "E", "F", "A", "L", "S", "Y", "N", "O">>
LowerCase == <<"t", "r", "u", "e", "f", "a", "l", "s", "y", "n", "o">>
LowerCh(ch) ==
  IF \E i \in 1..Len(UpperCase) : UpperCase[i] = ch
  THEN LowerCase[CHOOSE i \in 1..Len(UpperCase) : UpperCase[i] = ch]
  ELSE ch
Lower(t) == [i \in 1..Len(t) |-> LowerCh(t[i])]

\* str.strip(): leading and trailing white space removed.
RECURSIVE LStrip(_)
LStrip(t) == IF t # <<>> /\ t[1] = " " THEN LStrip(Tail(t)) ELSE t
RECURSIVE RStrip(_)
RStrip(t) ==
  IF t # <<>> /\ t[Len(t)] = " " THEN RStrip(SubSeq(t, 1, Len(t) - 1)) ELSE t
Strip(t) == RStrip(LStrip(t))

IsDecoration(ch) == ch \in {",", "$", "%"}
NotDecoration(ch) == ~IsDecoration(ch)

\* The value of a digit string read as a natural number.
RECURSIVE NatOf(_)
NatOf(t) ==
  IF t = <<>> THEN 0
  ELSE 10 * NatOf(SubSeq(t, 1, Len(t) - 1)) + DigitVal(t[Len(t)])

RECURSIVE Pow10(_)
Pow10(k) == IF k = 0 THEN 1 ELSE 10 * Pow10(k - 1)

AllDigits(t) == \A i \in 1..Len(t) : t[i] \in DigitSet

\* float(text) on [sign] digits [. digits]; anything else is a ValueError.
FloatOf(text) ==
  LET Parts(neg, ip, fp) ==
        IF ~AllDigits(ip) \/ ~AllDigits(fp) \/ (ip = <<>> /\ fp = <<>>)
        THEN Err("ValueError")
        ELSE LET Signed(m) == Ok(IF neg THEN RSub(RZero, m) ELSE m)
             IN  Signed(Rat(NatOf(ip) * Pow10(Len(fp)) + NatOf(fp),
                            Pow10(Len(fp))))
      Unsigned(neg, u, dots) ==
        IF Cardinality(dots) > 1 THEN Err("ValueError")
        ELSE LET Split(p) ==
                   Parts(neg, SubSeq(u, 1, p - 1), SubSeq(u, p + 1, Len(u)))
             IN  Split(IF dots = {} THEN Len(u) + 1 ELSE CHOOSE i \in dots : TRUE)
      Stripped(t) ==
        LET Body(u) ==
              Unsigned(t # <<>> /\ t[1] = "-", u, {i \in 1..Len(u) : u[i] = "."})
        IN  Body(IF t # <<>> /\ t[1] \in {"-", "+"} THEN Tail(t) ELSE t)
  IN  Stripped(Strip(text))

_parse_float(value) ==
  LET Float(cleaned) == IF cleaned = <<>> THEN Ok(RZero) ELSE FloatOf(cleaned)
  IN  Float(SelectSeq(Strip(value), NotDecoration))

_parse_bool(value) ==
  Lower(Strip(value)) \in
    {<<"t", "r", "u", "e">>, <<"1">>, <<"y", "e", "s">>, <<"y">>}

\* ----------------------------------------------------------- the CSV loader
K_SKU_CODE == <<"SKU Code">>
K_NAME == <<"Name">>
K_UNIT_LABEL == <<"Unit Label">>
K_BASE_UNIT_PRICE == <<"Base Unit Price (USD)">>
K_UNIT == <<"Unit">>
K_MIN_UNITS == <<"Min Units (Relative)">>
K_DISCOUNT == <<"Discount % (as decimal)">>
K_UPLIFT_NAME == <<"Uplift Name">>
K_PERCENT == <<"Percent (as decimal)">>
K_ENABLED == <<"Enabled (TRUE/FALSE)">>

\* One csv.DictReader row as a dict, keys and values stripped.
RECURSIVE RowDict(_, _)
RowDict(cols, cells) ==
  IF cols = <<>> THEN <<>>
  ELSE LET n == Len(cols)
       IN  DictPut(RowDict(SubSeq(cols, 1, n - 1), SubSeq(cells, 1, n - 1)),
                   Strip(cols[n]), Strip(cells[n]))

\* The rows of a fetched table: raw is [cols, rows], the text of a response
\* whose status was a success.
_fetch_csv(raw) == [i \in 1..Len(raw.rows) |-> RowDict(raw.cols, raw.rows[i])]

\* row[key]: a KeyError when the column is missing.
TextField(row, key) ==
  IF DictHas(row, key) THEN Ok(DictGet(row, key)) ELSE Err("KeyError")
NumField(row, key) ==
  IF DictHas(row, key) THEN _parse_float(DictGet(row, key)) ELSE Err("KeyError")

ParseSku(row) ==
  LET Sku(c, nm, ul, pr, un) ==
        IF ~c.ok THEN c
        ELSE IF ~nm.ok THEN nm
        ELSE IF ~ul.ok THEN ul
        ELSE IF ~pr.ok THEN pr
        ELSE IF ~un.ok THEN un
        ELSE Ok([sku_code |-> c.val, name |-> nm.val, unit_label |-> ul.val,
                 base_unit_price |-> pr.val, unit |-> un.val])
  IN  Sku(TextField(row, K_SKU_CODE), TextField(row, K_NAME),
          TextField(row, K_UNIT_LABEL), NumField(row, K_BASE_UNIT_PRICE),
          NumField(row, K_UNIT))

RECURSIVE ParseSkus(_)
ParseSkus(price_rows) ==
  IF price_rows = <<>> THEN Ok(<<>>)
  ELSE LET n == Len(price_rows)
           Put(before, sku) ==
             IF ~before.ok THEN before
             ELSE IF ~sku.ok THEN sku
             ELSE Ok(DictPut(before.val, sku.val.sku_code, sku.val))
       IN  Put(ParseSkus(SubSeq(price_rows, 1, n - 1)), ParseSku(price_rows[n]))

ParseDiscount(row) ==
  LET Discount(mu, dd) ==
        IF ~mu.ok THEN mu
        ELSE IF ~dd.ok THEN dd
        ELSE Ok([min_units |-> mu.val, discount_decimal |-> dd.val])
  IN  Discount(NumField(row, K_MIN_UNITS), NumField(row, K_DISCOUNT))

RECURSIVE ParseDiscountList(_)
ParseDiscountList(volume_rows) ==
  IF volume_rows = <<>> THEN Ok(<<>>)
  ELSE LET n == Len(volume_rows)
           Add(before, d) ==
             IF ~before.ok THEN before
             ELSE IF ~d.ok THEN d
             ELSE Ok(Append(before.val, d.val))
       IN  Add(ParseDiscountList(SubSeq(volume_rows, 1, n - 1)),
               ParseDiscount(volume_rows[n]))

\* sorted(list, key=lambda d: d.min_units): stable, ascending.
RECURSIVE InsertByMinUnits(_, _)
InsertByMinUnits(sorted, d) ==
  IF sorted = <<>> THEN <<d>>
  ELSE LET n == Len(sorted)
       IN  IF RLe(sorted[n].min_units, d.min_units) THEN Append(sorted, d)
           ELSE Append(InsertByMinUnits(SubSeq(sorted, 1, n - 1), d), sorted[n])

RECURSIVE SortedByMinUnits(_)
SortedByMinUnits(list) ==
  IF list = <<>> THEN <<>>
  ELSE LET n == Len(list)
       IN  InsertByMinUnits(SortedByMinUnits(SubSeq(list, 1, n - 1)), list[n])

ParseDiscounts(volume_rows) ==
  LET Sorted(list) == IF ~list.ok THEN list ELSE Ok(SortedByMinUnits(list.val))
  IN  Sorted(ParseDiscountList(volume_rows))

ParseUplift(row) ==
  LET Built(nm, pc, en) ==
        IF ~nm.ok THEN nm
        ELSE IF ~pc.ok THEN pc
        ELSE IF ~en.ok THEN en
        ELSE Ok([uplift_name |-> nm.val, percent_decimal |-> pc.val,
                 enabled |-> _parse_bool(en.val)])
  IN  Built(TextField(row, K_UPLIFT_NAME), NumField(row, K_PERCENT),
            TextField(row, K_ENABLED))

RECURSIVE ParseUplifts(_)
ParseUplifts(uplift_rows) ==
  IF uplift_rows = <<>> THEN Ok(<<>>)
  ELSE LET n == Len(uplift_rows)
           Put(before, u) ==
             IF ~before.ok THEN before
             ELSE IF ~u.ok THEN u
             ELSE Ok(DictPut(before.val, u.val.uplift_name, u.val))
       IN  Put(ParseUplifts(SubSeq(uplift_rows, 1, n - 1)),
               ParseUplift(uplift_rows[n]))

NotSkuCode(h) == h # K_SKU_CODE

\* {use_case: _parse_float(row.get(use_case, "")) for use_case in use_cases}
RECURSIVE ParseRates(_, _)
ParseRates(row, use_cases) ==
  IF use_cases = <<>> THEN Ok(<<>>)
  ELSE LET n == Len(use_cases)
           Put(before, f) ==
             IF ~before.ok THEN before
             ELSE IF ~f.ok THEN f
             ELSE Ok(DictPut(before.val, use_cases[n], f.val))
       IN  Put(ParseRates(row, SubSeq(use_cases, 1, n - 1)),
               _parse_float(IF DictHas(row, use_cases[n])
                            THEN DictGet(row, use_cases[n]) ELSE <<>>))

RECURSIVE ParseMappingRows(_, _)
ParseMappingRows(rows, use_cases) ==
  IF rows = <<>> THEN Ok(<<>>)
  ELSE LET n == Len(rows)
           Put(before, sku_code, rates) ==
             IF ~before.ok THEN before
             ELSE IF sku_code = <<>> THEN before
             ELSE IF ~rates.ok THEN rates
             ELSE Ok(DictPut(before.val, sku_code, rates.val))
       IN  Put(ParseMappingRows(SubSeq(rows, 1, n - 1), use_cases),
               Strip(IF DictHas(rows[n], K_SKU_CODE)
                     THEN DictGet(rows[n], K_SKU_CODE) ELSE <<>>),
               ParseRates(rows[n], use_cases))

_parse_use_case_mappings(rows) ==
  IF rows = <<>> THEN Ok([parsed |-> <<>>, use_cases |-> <<>>])
  ELSE LET Result(use_cases, parsed) ==
             IF ~parsed.ok THEN parsed
             ELSE Ok([parsed |-> parsed.val, use_cases |-> use_cases])
           Headers(use_cases) ==
             Result(use_cases, ParseMappingRows(rows, use_cases))
       IN  Headers(SelectSeq(DictKeys(rows[1]), NotSkuCode))

\* The four configuration values refresh_once reads.
EnvNames ==
  {"PRICELIST_CSV_URL", "VOLUME_CSV_URL", "UPLIFTS_CSV_URL",
   "USE_CASE_MAPPINGS_CSV_URL"}

\* Lines 119-149 on one fetched table: which parser its rows go through.
ParseTable(n, raw) ==
  CASE n = "PRICELIST_CSV_URL" -> ParseSkus(_fetch_csv(raw))
    [] n = "VOLUME_CSV_URL" -> ParseDiscounts(_fetch_csv(raw))
    [] n = "UPLIFTS_CSV_URL" -> ParseUplifts(_fetch_csv(raw))
    [] n = "USE_CASE_MAPPINGS_CSV_URL" -> _parse_use_case_mappings(_fetch_csv(raw))

\* The snapshot refresh_once builds off to the side (its parsed_* locals):
\* the four tables are parsed in this order and the first error is raised.
BuildSnapshot(t) ==
  LET skus == t["PRICELIST_CSV_URL"]
      discounts == t["VOLUME_CSV_URL"]
      uplifts == t["UPLIFTS_CSV_URL"]
      ucm == t["USE_CASE_MAPPINGS_CSV_URL"]
  IN  IF ~skus.ok THEN skus
      ELSE IF ~discounts.ok THEN discounts
      ELSE IF ~uplifts.ok THEN uplifts
      ELSE IF ~ucm.ok THEN ucm
      ELSE Ok([skus |-> skus.val,
               volume_discounts |-> discounts.val,
               uplifts |-> uplifts.val,
               use_case_mappings |-> ucm.val.parsed,
               use_cases |-> ucm.val.use_cases])

\* Lines 111-149: gather() over the four fetches, then the parsing.  got[n] is
\* None when the fetch of n failed.
ParseAll(got) ==
  IF \E n \in EnvNames : IsNone(got[n]) THEN Err("FetchError")
  ELSE BuildSnapshot([n \in EnvNames |-> ParseTable(n, The(got[n]))])

\* DataStore.__init__: the empty snapshot.
EmptySnapshot ==
  [skus |-> <<>>, volume_discounts |-> <<>>, uplifts |-> <<>>,
   use_case_mappings |-> <<>>, use_cases |-> <<>>]

\* ------------------------------------------------------------ the quote engine
\* raise HTTPException(status_code, detail)
HTTPException(status_code, detail) ==
  Err([exc |-> "HTTPException", status_code |-> status_code, detail |-> detail])

\* Any other exception escaping a handler: the framework answers 500.
Raise(exc) == Err([exc |-> exc, status_code |-> 500, detail |-> <<>>])

IsEnabled(u) == u.enabled

\* _resolve_uplifts reporting only the first unknown name.
ResolveUpliftsFirstMissing(st, uplift_names) ==
  IF IsNone(uplift_names)
  THEN Ok(SelectSeq(DictValues(st.uplifts), IsEnabled))
  ELSE LET names == The(uplift_names)
           Unknown(name) == ~DictHas(st.uplifts, name)
           missing == SelectSeq(names, Unknown)
       IN  IF missing # <<>>
           THEN HTTPException(400, <<"Unknown uplifts", <<missing[1]>> >>)
           ELSE Ok([i \in 1..Len(names) |-> DictGet(st.uplifts, names[i])])

\* _resolve_uplifts over the snapshot st (the module-level store's fields).
_resolve_uplifts(st, uplift_names) ==
  IF IsNone(uplift_names)
  THEN Ok(SelectSeq(DictValues(st.uplifts), IsEnabled))
  ELSE LET names == The(uplift_names)
           Unknown(name) == ~DictHas(st.uplifts, name)
           missing == SelectSeq(names, Unknown)
       IN  IF missing # <<>>
           THEN HTTPException(400, <<"Unknown uplifts", missing>>)
           ELSE Ok([i \in 1..Len(names) |-> DictGet(st.uplifts, names[i])])

\* The tier with the highest qualifying threshold, whatever its fraction.
RECURSIVE SelectDiscountNearestTier(_, _)
SelectDiscountNearestTier(volume_discounts, relative_units) ==
  IF volume_discounts = <<>> THEN RZero
  ELSE LET n == Len(volume_discounts)
           d == volume_discounts[n]
       IN  IF RLe(d.min_units, relative_units) THEN d.discount_decimal
           ELSE SelectDiscountNearestTier(SubSeq(volume_discounts, 1, n - 1),
                                          relative_units)

\* The loop of lines 247-250: a running maximum that starts at 0.0.
RECURSIVE SelectDiscount(_, _)
SelectDiscount(volume_discounts, relative_units) ==
  IF volume_discounts = <<>> THEN RZero
  ELSE LET n == Len(volume_discounts)
           d == volume_discounts[n]
           discount_decimal ==
             SelectDiscount(SubSeq(volume_discounts, 1, n - 1), relative_units)
       IN  IF RLe(d.min_units, relative_units)
              /\ RLt(discount_decimal, d.discount_decimal)
           THEN d.discount_decimal
           ELSE discount_decimal

RECURSIVE SumPercent(_)
SumPercent(selected) ==
  IF selected = <<>> THEN RZero
  ELSE RAdd(SumPercent(SubSeq(selected, 1, Len(selected) - 1)),
            selected[Len(selected)].percent_decimal)

_calculate_sku_quote(st, sku_code, quantity, uplift_names) ==
  IF ~DictHas(st.skus, sku_code)
  THEN HTTPException(404, <<"Unknown sku_code", sku_code>>)
  ELSE
    LET Result(sku, relative_units, base_cost, discount_decimal,
               discounted_cost, selected_uplifts, uplift_decimal) ==
          Ok([sku |-> [sku_code |-> sku.sku_code,
                       name |-> sku.name,
                       unit_label |-> sku.unit_label],
              quantity_raw |-> quantity,
              unit_multiplier |-> sku.unit,
              relative_units |-> relative_units,
              base_unit_price |-> sku.base_unit_price,
              base_cost |-> base_cost,
              discount_decimal |-> discount_decimal,
              discounted_cost |-> discounted_cost,
              uplift_decimal |-> uplift_decimal,
              final_cost |-> RMul(discounted_cost, RAdd(ROne, uplift_decimal)),
              applied_uplifts |->
                [i \in 1..Len(selected_uplifts) |->
                  [uplift_name |-> selected_uplifts[i].uplift_name,
                   percent_decimal |-> selected_uplifts[i].percent_decimal]]])
        Uplifted(sku, relative_units, base_cost, discount_decimal,
                 discounted_cost, selected_uplifts) ==
          IF ~selected_uplifts.ok THEN selected_uplifts
          ELSE Result(sku, relative_units, base_cost, discount_decimal,
                      discounted_cost, selected_uplifts.val,
                      SumPercent(selected_uplifts.val))
        Discounted(sku, relative_units, base_cost, discount_decimal) ==
          Uplifted(sku, relative_units, base_cost, discount_decimal,
                   RMul(base_cost, RSub(ROne, discount_decimal)),
                   _resolve_uplifts(st, uplift_names))
        Priced(sku, relative_units) ==
          Discounted(sku, relative_units,
                     RMul(relative_units, sku.base_unit_price),
                     SelectDiscount(st.volume_discounts, relative_units))
        Found(sku) ==
          IF sku.unit = RZero THEN Raise("ZeroDivisionError")
          ELSE Priced(sku, RDiv(quantity, sku.unit))
    IN  Found(DictGet(st.skus, sku_code))

\* The loop without its second skip (a mapping row whose SKU is gone).
RECURSIVE UseCaseLinesNoSkuSkip(_, _, _, _, _)
UseCaseLinesNoSkuSkip(st, mappings, use_case, hours, uplift_names) ==
  IF mappings = <<>> THEN Ok([breakdown |-> <<>>, grand_total_usd |-> RZero])
  ELSE
    LET n == Len(mappings)
        Line(before, sku_code, units_per_hour, units_total, sku_quote) ==
          IF ~before.ok THEN before
          ELSE IF RLe(units_total, RZero) THEN before
          ELSE IF ~sku_quote.ok THEN sku_quote
          ELSE Ok([breakdown |->
                     Append(before.val.breakdown,
                            [sku_code |-> sku_code,
                             sku_name |-> sku_quote.val.sku.name,
                             unit_label |-> sku_quote.val.sku.unit_label,
                             units_per_hour |-> units_per_hour,
                             units_total |-> units_total,
                             cost_usd |-> sku_quote.val.final_cost]),
                   grand_total_usd |->
                     RAdd(before.val.grand_total_usd,
                          sku_quote.val.final_cost)])
        Total(sku_code, units_per_hour, units_total) ==
          Line(UseCaseLinesNoSkuSkip(st, SubSeq(mappings, 1, n - 1), use_case, hours,
                    uplift_names),
               sku_code, units_per_hour, units_total,
               _calculate_sku_quote(st, sku_code, units_total, uplift_names))
        Rate(sku_code, units_per_hour) ==
          Total(sku_code, units_per_hour, RMul(units_per_hour, hours))
    IN  Rate(mappings[n].k,
             IF DictHas(mappings[n].v, use_case)
             THEN DictGet(mappings[n].v, use_case) ELSE RZero)

\* The loop of lines 306-326 over store.use_case_mappings.items(), in dict
\* order: the lines appended so far and the running total, or the first error.
RECURSIVE UseCaseLines(_, _, _, _, _)
UseCaseLines(st, mappings, use_case, hours, uplift_names) ==
  IF mappings = <<>> THEN Ok([breakdown |-> <<>>, grand_total_usd |-> RZero])
  ELSE
    LET n == Len(mappings)
        Line(before, sku_code, units_per_hour, units_total, sku_quote) ==
          IF ~before.ok THEN before
          ELSE IF RLe(units_total, RZero) THEN before
          ELSE IF ~DictHas(st.skus, sku_code) THEN before
          ELSE IF ~sku_quote.ok THEN sku_quote
          ELSE Ok([breakdown |->
                     Append(before.val.breakdown,
                            [sku_code |-> sku_code,
                             sku_name |-> sku_quote.val.sku.name,
                             unit_label |-> sku_quote.val.sku.unit_label,
                             units_per_hour |-> units_per_hour,
                             units_total |-> units_total,
                             cost_usd |-> sku_quote.val.final_cost]),
                   grand_total_usd |->
                     RAdd(before.val.grand_total_usd,
                          sku_quote.val.final_cost)])
        Total(sku_code, units_per_hour, units_total) ==
          Line(UseCaseLines(st, SubSeq(mappings, 1, n - 1), use_case, hours,
                    uplift_names),
               sku_code, units_per_hour, units_total,
               _calculate_sku_quote(st, sku_code, units_total, uplift_names))
        Rate(sku_code, units_per_hour) ==
          Total(sku_code, units_per_hour, RMul(units_per_hour, hours))
    IN  Rate(mappings[n].k,
             IF DictHas(mappings[n].v, use_case)
             THEN DictGet(mappings[n].v, use_case) ELSE RZero)

\* The sort without reverse=True.
RECURSIVE InsertByCostAsc(_, _)
InsertByCostAsc(sorted, line) ==
  IF sorted = <<>> THEN <<line>>
  ELSE LET n == Len(sorted)
       IN  IF RLe(sorted[n].cost_usd, line.cost_usd) THEN Append(sorted, line)
           ELSE Append(InsertByCostAsc(SubSeq(sorted, 1, n - 1), line),
                       sorted[n])

\* breakdown.sort(key=cost_usd, reverse=True): stable, descending.
RECURSIVE InsertByCostDesc(_, _)
InsertByCostDesc(sorted, line) ==
  IF sorted = <<>> THEN <<line>>
  ELSE LET n == Len(sorted)
       IN  IF RLe(line.cost_usd, sorted[n].cost_usd) THEN Append(sorted, line)
           ELSE Append(InsertByCostDesc(SubSeq(sorted, 1, n - 1), line),
                       sorted[n])

RECURSIVE SortedByCostDesc(_)
SortedByCostDesc(list) ==
  IF list = <<>> THEN <<>>
  ELSE LET n == Len(list)
       IN  InsertByCostDesc(SortedByCostDesc(SubSeq(list, 1, n - 1)), list[n])

\* QuoteRequest's field constraints (gt=0), which the framework checks before
\* the handler runs.
QuoteRequestValid(payload) ==
  /\ IF IsNone(payload.quantity) THEN TRUE ELSE RLt(RZero, The(payload.quantity))
  /\ IF IsNone(payload.hours) THEN TRUE ELSE RLt(RZero, The(payload.hours))

\* The body of the /quote handler after ensure_fresh has returned.
QuoteBody(st, payload) ==
  IF payload.mode = "sku" THEN
    IF IsNone(payload.sku_code) \/ payload.sku_code = Some(<<>>)
    THEN HTTPException(400, <<"sku_code is required for mode=sku">>)
    ELSE IF IsNone(payload.quantity) \/ RLe(The(payload.quantity), RZero)
    THEN HTTPException(400, <<"quantity must be > 0 for mode=sku">>)
    ELSE _calculate_sku_quote(st, The(payload.sku_code), The(payload.quantity),
                              payload.uplift_names)
  ELSE IF payload.mode = "use_case" THEN
    IF IsNone(payload.use_case) \/ payload.use_case = Some(<<>>)
    THEN HTTPException(400, <<"use_case is required for mode=use_case">>)
    ELSE IF \A i \in 1..Len(st.use_cases) : st.use_cases[i] # The(payload.use_case)
    THEN HTTPException(400, <<"use_case not found", The(payload.use_case)>>)
    ELSE IF IsNone(payload.hours) \/ RLe(The(payload.hours), RZero)
    THEN HTTPException(400, <<"hours must be > 0 for mode=use_case">>)
    ELSE LET Quote(lines) ==
               IF ~lines.ok THEN lines
               ELSE Ok([mode |-> "use_case",
                        use_case |-> The(payload.use_case),
                        hours |-> The(payload.hours),
                        grand_total_usd |-> lines.val.grand_total_usd,
                        breakdown |-> SortedByCostDesc(lines.val.breakdown)])
         IN  Quote(UseCaseLines(st, st.use_case_mappings,
                                The(payload.use_case), The(payload.hours),
                                payload.uplift_names))
  ELSE HTTPException(400, <<"mode must be either 'sku' or 'use_case'">>)

\* What a handler computes from the store once ensure_fresh has returned.
\* A request is [kind, payload]; kind is the route.
HandlerBody(st, request) ==
  IF request.kind = "health"
  THEN Ok([ok |-> TRUE, sku_count |-> Len(st.skus),
           uplift_count |-> Len(st.uplifts),
           use_case_count |-> Len(st.use_cases)])
  ELSE IF request.kind = "use_cases" THEN Ok(st.use_cases)
  ELSE QuoteBody(st, request.payload)

\* ------------------------------------------------------------ fetched tables
Txt(chunk) == <<chunk>>
Num2_0 == <<"2", ".", "0">>
Num1_0 == <<"1", ".", "0">>
Num0_1 == <<"0", ".", "1">>
Num0_2 == <<"0", ".", "2">>
Num0_5 == <<"0", ".", "5">>
Num10 == <<"1", "0">>
Num3 == <<"3">>
Num1 == <<"1">>
NotANumber == <<"n", "/", "a">>
SKU_A == Txt("SKU-A")
SKU_B == Txt("SKU-B")
SKU_C == Txt("SKU-C")
UC_STARTUP == Txt("Early-Stage AI Startup")
UC_RESEARCH == Txt("Academic Research")
UP_DEFAULT == Txt("Default")
UP_RUSH == Txt("Rush")
UP_GHOST == Txt("Ghost")

PriceCols == <<K_SKU_CODE, K_NAME, K_UNIT_LABEL, K_BASE_UNIT_PRICE, K_UNIT>>
PriceRowA == <<SKU_A, Txt("A"), Txt("Tokens"), Num2_0, Num1_0>>
PriceRowB == <<SKU_B, Txt("B"), Txt("Jobs"), Num1_0, Num2_0>>
PriceAB == [cols |-> PriceCols, rows |-> <<PriceRowA, PriceRowB>>]
PriceA ==
  [cols |-> PriceCols,
   rows |-> << <<<<" ", "SKU-A">>, Txt("A"), Txt("Tokens"),
                 <<"$", "2", ".", "5", "0">>, Num1>> >>]
PriceZeroUnit ==
  [cols |-> PriceCols,
   rows |-> << <<SKU_A, Txt("A"), Txt("Tokens"), Num2_0, <<"0">> >>, PriceRowB >>]
PriceNoUnit ==
  [cols |-> <<K_SKU_CODE, K_NAME, K_UNIT_LABEL, K_BASE_UNIT_PRICE>>,
   rows |-> << <<SKU_A, Txt("A"), Txt("Tokens"), Num2_0>> >>]

VolumeCols == <<K_MIN_UNITS, K_DISCOUNT>>
VolumeOneTier == [cols |-> VolumeCols, rows |-> << <<Num10, Num0_1>> >>]
VolumeBadCell == [cols |-> VolumeCols, rows |-> << <<Num10, NotANumber>> >>]

UpliftCols == <<K_UPLIFT_NAME, K_PERCENT, K_ENABLED>>
UpliftRowDefault == <<UP_DEFAULT, Num0_2, <<"T", "R", "U", "E">> >>
UpliftRowRush == <<UP_RUSH, Num0_5, <<"F", "A", "L", "S", "E">> >>
UpliftDefault == [cols |-> UpliftCols, rows |-> <<UpliftRowDefault>>]
UpliftDefaultRush ==
  [cols |-> UpliftCols, rows |-> <<UpliftRowDefault, UpliftRowRush>>]
UpliftNone == [cols |-> UpliftCols, rows |-> <<>>]

UseCaseOne ==
  [cols |-> <<K_SKU_CODE, UC_STARTUP>>,
   rows |-> << <<SKU_A, Num3>>, <<SKU_B, Num1>> >>]
UseCaseTwo ==
  [cols |-> <<K_SKU_CODE, UC_STARTUP, UC_RESEARCH>>,
   rows |-> << <<SKU_A, <<"1", ",", "2", "0", "0", ".", "5">>, <<>> >>,
               <<SKU_B, <<>>, Num3>> >>]
UseCaseBadCell ==
  [cols |-> <<K_SKU_CODE, UC_STARTUP>>, rows |-> << <<SKU_A, NotANumber>> >>]

\* What each of the four fetches of one refresh may bring back: None is a
\* failed fetch (a timeout, a non-success status).
Responses ==
  [PRICELIST_CSV_URL |-> {None, Some(PriceAB), Some(PriceA), Some(PriceNoUnit)},
   VOLUME_CSV_URL |-> {None, Some(VolumeOneTier), Some(VolumeBadCell)},
   UPLIFTS_CSV_URL |-> {None, Some(UpliftDefault)},
   USE_CASE_MAPPINGS_CSV_URL |-> {None, Some(UseCaseOne), Some(UseCaseBadCell)}]

Batches(responses) ==
  {got \in [EnvNames -> UNION {responses[n] : n \in EnvNames}] :
     \A n \in EnvNames : got[n] \in responses[n]}

\* What refresh_once's gather() and parsing can come to: every outcome of a
\* batch of four fetches, parsed.
\* {ParseAll(got) : got \in Batches(responses)}, each table parsed once.
Loads(responses) ==
  LET Built(prices, volumes, uplifts, mappings) ==
        {BuildSnapshot([PRICELIST_CSV_URL |-> p, VOLUME_CSV_URL |-> v,
                        UPLIFTS_CSV_URL |-> u,
                        USE_CASE_MAPPINGS_CSV_URL |-> m]) :
           p \in prices, v \in volumes, u \in uplifts, m \in mappings}
      Parsed(n) == {ParseTable(n, The(r)) : r \in responses[n] \ {None}}
  IN  Built(Parsed("PRICELIST_CSV_URL"), Parsed("VOLUME_CSV_URL"),
            Parsed("UPLIFTS_CSV_URL"), Parsed("USE_CASE_MAPPINGS_CSV_URL"))
        \cup (IF \E n \in EnvNames : None \in responses[n]
              THEN {Err("FetchError")} ELSE {})

\* -------------------------------------------------------------------- state
VARIABLES
  store,             \* the five snapshot fields of the DataStore
  last_refresh_utc,  \* None, or Some(time of the last successful refresh)
  locked,            \* _refresh_lock is held
  waiters,           \* the callers suspended in _refresh_lock.acquire(), FIFO
  env,               \* the configuration values that are set
  now,               \* time.time()
  pc,                \* where each request is: idle, waiting, fetching, done
  request,           \* the request each caller is serving
  seen,              \* last_refresh_utc as ensure_fresh read it (line 160)
  response,          \* the answer each finished request got
  loaded             \* the snapshot the last successful load built (parsed_*)

vars == <<store, last_refresh_utc, locked, waiters, env, now, pc, request,
          seen, response, loaded>>

Callers == 1..NumCallers

NoRequest == [kind |-> "none", payload |-> <<>>]
NoResponse == [status_code |-> 0, exc |-> "", body |-> <<>>]

\* What the framework sends for a handler's result.
Response(result) ==
  IF result.ok THEN [status_code |-> 200, exc |-> "", body |-> result.val]
  ELSE [status_code |-> result.err.status_code, exc |-> result.err.exc,
        body |-> result.err.detail]

Payload(mode, sku_code, quantity, use_case, hours, uplift_names) ==
  [mode |-> mode, sku_code |-> sku_code, quantity |-> quantity,
   use_case |-> use_case, hours |-> hours, uplift_names |-> uplift_names]

\* ensure_fresh's test, on the values it read.
IsStale(last, t) ==
  IF IsNone(last) THEN TRUE ELSE t - The(last) >= REFRESH_SECONDS

\* A refresh that is suspended after its first assignment.
AssignSnapshotTorn(parsed) == store' = [store EXCEPT !.skus = parsed.skus]

\* Lines 151-155: the five assignments, with no suspension point between them.
AssignSnapshot(parsed) == store' = parsed

\* A handler finishes: its answer is computed from the store as it is then.
Answer(c, req) ==
  /\ response' = [response EXCEPT ![c] = Response(HandlerBody(store', req))]
  /\ pc' = [pc EXCEPT ![c] = "done"]

\* A handler that swallows the refresh error and answers from the old store.
FailServesOldData(c, exc) ==
  /\ response' =
       [response EXCEPT ![c] = Response(HandlerBody(store, request'[c]))]
  /\ pc' = [pc EXCEPT ![c] = "done"]

\* refresh_once fails with exc: the error escapes ensure_fresh and the handler.
Fail(c, exc) ==
  /\ response' = [response EXCEPT ![c] = Response(Raise(exc))]
  /\ pc' = [pc EXCEPT ![c] = "done"]

\* Lines 102-117, entered with the lock in hand: the configuration check, then
\* the four fetches start and the caller is suspended in gather().
EnterRefresh(c) ==
  IF env # EnvNames
  THEN /\ Fail(c, "RuntimeError")
       /\ locked' = FALSE
       /\ UNCHANGED <<store, last_refresh_utc, loaded>>
  ELSE /\ locked' = TRUE
       /\ pc' = [pc EXCEPT ![c] = "fetching"]
       /\ UNCHANGED <<store, last_refresh_utc, loaded, response>>

\* refresh_once without its lock.
LockFreeAlways == TRUE

\* asyncio.Lock.acquire without suspension: the lock is free and nobody waits.
LockFree == ~locked /\ waiters = <<>>

\* A request arrives and runs up to its first suspension point: ensure_fresh,
\* then either the whole handler (fresh cache), or refresh_once up to the lock
\* or up to gather().
Request(c, req) ==
  /\ pc[c] = "idle"
  /\ IF req.kind = "quote" THEN QuoteRequestValid(req.payload) ELSE TRUE
  /\ request' = [request EXCEPT ![c] = req]
  /\ seen' = [seen EXCEPT ![c] = last_refresh_utc]
  /\ IF ~IsStale(last_refresh_utc, now)
     THEN /\ UNCHANGED <<store, last_refresh_utc, locked, waiters, loaded>>
          /\ Answer(c, req)
     ELSE IF LockFree
     THEN /\ EnterRefresh(c)
          /\ UNCHANGED waiters
     ELSE /\ waiters' = Append(waiters, c)
          /\ pc' = [pc EXCEPT ![c] = "waiting"]
          /\ UNCHANGED <<store, last_refresh_utc, locked, loaded, response>>
  /\ UNCHANGED <<env, now>>

\* The first waiter is woken by release() and takes the lock.
Acquire(c) ==
  /\ pc[c] = "waiting"
  /\ ~locked
  /\ waiters # <<>> /\ Head(waiters) = c
  /\ UNCHANGED <<env, now, request, seen>>
  /\ waiters' = Tail(waiters)
  /\ EnterRefresh(c)

\* A refresh whose timestamp is set whether or not the load succeeded.
FetchDoneStampsFailure(c, parsed) ==
  /\ pc[c] = "fetching"
  /\ UNCHANGED <<waiters, env, now, request, seen>>
  /\ locked' = FALSE
  /\ last_refresh_utc' = Some(now)
  /\ IF parsed.ok
     THEN /\ AssignSnapshot(parsed.val)
          /\ loaded' = parsed.val
          /\ Answer(c, request[c])
     ELSE /\ Fail(c, parsed.err)
          /\ UNCHANGED <<store, loaded>>

\* gather() returns or raises: the rest of refresh_once and of the handler run
\* without another suspension point that touches the store.
FetchDone(c, parsed) ==
  /\ pc[c] = "fetching"
  /\ UNCHANGED <<waiters, env, now, request, seen>>
  /\ locked' = FALSE
  /\ IF parsed.ok
     THEN /\ AssignSnapshot(parsed.val)
          /\ loaded' = parsed.val
          /\ last_refresh_utc' = Some(now)
          /\ Answer(c, request[c])
     ELSE /\ Fail(c, parsed.err)
          /\ UNCHANGED <<store, last_refresh_utc, loaded>>

\* The answer is sent; the caller may issue another request.
Return(c) ==
  /\ pc[c] = "done"
  /\ pc' = [pc EXCEPT ![c] = "idle"]
  /\ response' = [response EXCEPT ![c] = NoResponse]
  /\ request' = [request EXCEPT ![c] = NoRequest]
  /\ seen' = [seen EXCEPT ![c] = None]
  /\ UNCHANGED <<store, last_refresh_utc, locked, waiters, env, now, loaded>>

Tick ==
  /\ now + TickStep <= MaxTime
  /\ now' = now + TickStep
  /\ UNCHANGED <<store, last_refresh_utc, locked, waiters, env, pc, request,
                 seen, response, loaded>>

\* ------------------------------------------------- the service under load
Requests ==
  {[kind |-> "use_cases", payload |-> <<>>],
   [kind |-> "quote",
    payload |-> Payload("use_case", None, None, Some(UC_STARTUP),
                        Some(Int2Rat(10)), Some(<<>>))]}

Environments == {EnvNames} \cup {EnvNames \ {n} : n \in EnvNames}

Init ==
  /\ store = EmptySnapshot
  /\ last_refresh_utc = None
  /\ locked = FALSE
  /\ waiters = <<>>
  /\ env \in Environments
  /\ now = 0
  /\ pc = [c \in Callers |-> "idle"]
  /\ request = [c \in Callers |-> NoRequest]
  /\ seen = [c \in Callers |-> None]
  /\ response = [c \in Callers |-> NoResponse]
  /\ loaded = EmptySnapshot

Next ==
  \/ \E c \in Callers, req \in Requests : Request(c, req)
  \/ \E c \in Callers : Acquire(c)
  \/ \E c \in Callers :
       pc[c] = "fetching" /\ \E parsed \in Loads(Responses) : FetchDone(c, parsed)
  \/ \E c \in Callers : Return(c)
  \/ Tick

Spec == Init /\ [][Next]_vars
\* ------------------------------------------------------- the refresh guard
\* The exceptions refresh_once can raise: configuration, fetch, schema, parse.
RefreshErrors == {"RuntimeError", "FetchError", "KeyError", "ValueError"}

\* The snapshots a successful load can build.
Snapshots == {parsed.val : parsed \in {p \in Loads(Responses) : p.ok}}

Finishes(c) == pc[c] # "done" /\ pc'[c] = "done"

\* C1: a caller that waited for an in-flight refresh that succeeded proceeds
\* with the resulting snapshot and issues no fetch batch of its own: no caller
\* is fetching once a refresh has succeeded since its staleness check.
C1_WaiterIssuesNoFetch ==
  \A c \in Callers : pc[c] = "fetching" => last_refresh_utc = seen[c]

\* C2: at most one caller is inside the guarded section of refresh_once.
C2_OneRefreshInFlight ==
  Cardinality({c \in Callers : pc[c] = "fetching"}) <= 1

C2_Witness ==
  \E c, d \in Callers : pc[c] = "fetching" /\ pc[d] = "waiting"

\* C3: a refresh attempt that fails leaves last_refresh_utc and the five
\* snapshot fields as they were and its error reaches the caller (a refresh
\* attempt ends either that way or with the timestamp set); with a
\* configuration value missing no fetch is ever started.
C3_FailedRefreshChangesNothing ==
  /\ [](env # EnvNames => \A c \in Callers : pc[c] # "fetching")
  /\ [][\A c \in Callers :
          /\ (Finishes(c) /\ response'[c].exc \in RefreshErrors) =>
               /\ store' = store
               /\ last_refresh_utc' = last_refresh_utc
               /\ response'[c].status_code = 500
          /\ (pc[c] = "fetching" /\ Finishes(c)
                /\ response'[c].exc \notin RefreshErrors) =>
               last_refresh_utc' = Some(now)]_vars

C3_Witness ==
  \E c \in Callers :
    /\ pc[c] = "done"
    /\ response[c].exc = "ValueError"
    /\ store \in Snapshots
    /\ ~IsNone(last_refresh_utc)

C5_NoTornSnapshot ==
  /\ [](store = loaded)
  /\ [][\A c \in Callers :
          (Finishes(c) /\ response'[c].exc \notin RefreshErrors) =>
            response'[c] = Response(HandlerBody(loaded', request'[c]))]_vars

C5_Witness ==
  \E c, d \in Callers :
    /\ pc[c] = "done" /\ response[c].status_code = 200
    /\ ~IsNone(seen[c]) /\ seen[c] # last_refresh_utc
    /\ pc[d] = "fetching"

\* ensure_fresh called refresh_once: the caller is at the lock, in the guarded
\* section, or has the configuration error.
RefreshCalled(c) ==
  \/ pc'[c] \in {"waiting", "fetching"}
  \/ pc'[c] = "done" /\ response'[c].exc = "RuntimeError"

\* ensure_fresh was a no-op: the handler answered from the store as it was.
NoOp(c) ==
  /\ pc'[c] = "done"
  /\ response'[c].exc \notin RefreshErrors
  /\ UNCHANGED <<store, last_refresh_utc, locked, waiters, loaded>>

\* C6, first sentence: ensure_fresh calls refresh_once exactly when no refresh
\* has completed or 600 or more have elapsed, and is a no-op otherwise.
C6_RefreshIffStale ==
  [][\A c \in Callers :
       (pc[c] = "idle" /\ pc'[c] # "idle") =>
         IF IsStale(last_refresh_utc, now) THEN RefreshCalled(c) ELSE NoOp(c)]_vars

\* C6: the first sentence, and after a failed refresh the cache is still
\* stale, so that the next ensure_fresh attempts a refresh again.
C6_EnsureFresh ==
  [][\A c \in Callers :
       /\ (pc[c] = "idle" /\ pc'[c] # "idle") =>
            IF IsStale(last_refresh_utc, now) THEN RefreshCalled(c) ELSE NoOp(c)
       /\ (Finishes(c) /\ response'[c].exc \in RefreshErrors) =>
            IsStale(last_refresh_utc', now')]_vars
\* ------------------------------------------------------- the quote engine
\* The quote engine is checked on a fresh cache: the state right after a
\* successful refresh, whose snapshot is drawn from wider sets of tables, with
\* one caller issuing quote requests.
FirstCaller == CHOOSE c \in Callers : \A d \in Callers : c <= d

InitFresh(snapshots) ==
  /\ store \in snapshots
  /\ loaded = store
  /\ last_refresh_utc = Some(0)
  /\ locked = FALSE
  /\ waiters = <<>>
  /\ env = EnvNames
  /\ now = 0
  /\ pc = [c \in Callers |-> "idle"]
  /\ request = [c \in Callers |-> NoRequest]
  /\ seen = [c \in Callers |-> None]
  /\ response = [c \in Callers |-> NoResponse]

\* Every sequence over S of length at most n.
RECURSIVE SeqsUpTo(_, _)
SeqsUpTo(S, n) ==
  IF n = 0 THEN {<<>>}
  ELSE LET shorter == SeqsUpTo(S, n - 1)
       IN  shorter \cup {Append(q, x) : q \in shorter, x \in S}

\* Volume tables: every table of at most MaxTierRows rows, in any row order,
\* thresholds 10 and 50, fractions 0, 0.05, 0.1 and -0.05.
TierRows ==
  {<<m, d>> : m \in {Num10, <<"5", "0">>},
              d \in {<<"0">>, <<"0", ".", "0", "5">>, Num0_1,
                     <<"-", "0", ".", "0", "5">>}}

DiscountResponses ==
  [PRICELIST_CSV_URL |-> {Some(PriceAB)},
   VOLUME_CSV_URL |->
     {Some([cols |-> VolumeCols, rows |-> rows]) :
        rows \in SeqsUpTo(TierRows, MaxTierRows)},
   UPLIFTS_CSV_URL |-> {Some(UpliftDefault)},
   USE_CASE_MAPPINGS_CSV_URL |-> {Some(UseCaseOne)}]

DiscountRequests ==
  {[kind |-> "quote",
    payload |-> Payload("sku", Some(code), Some(Int2Rat(q)), None, None, None)] :
     code \in {SKU_A, SKU_B}, q \in {5, 10, 30, 60, 100}}

InitDiscount == InitFresh({p.val : p \in {q \in Loads(DiscountResponses) : q.ok}})

NextDiscount ==
  \/ \E req \in DiscountRequests : Request(FirstCaller, req)
  \/ Return(FirstCaller)

SpecDiscount == InitDiscount /\ [][NextDiscount]_vars

\* Mapping tables with a row whose SKU is in no price list, a negative rate,
\* a zero rate, and rows whose lines cost the same.
UseCaseStale ==
  [cols |-> <<K_SKU_CODE, UC_STARTUP, UC_RESEARCH>>,
   rows |-> << <<SKU_C, <<"5">>, Num1>>,
               <<SKU_B, Num1, <<"-", "1">> >>,
               <<SKU_A, Num3, <<"4">> >> >>]
UseCaseTie ==
  [cols |-> <<K_SKU_CODE, UC_STARTUP>>,
   rows |-> << <<SKU_B, <<"4">> >>, <<SKU_A, Num1>> >>]

QuoteResponses ==
  [PRICELIST_CSV_URL |-> {Some(PriceAB), Some(PriceA), Some(PriceZeroUnit)},
   VOLUME_CSV_URL |-> {Some(VolumeOneTier)},
   UPLIFTS_CSV_URL |->
     {Some(UpliftDefault), Some(UpliftDefaultRush), Some(UpliftNone)},
   USE_CASE_MAPPINGS_CSV_URL |->
     {Some(UseCaseOne), Some(UseCaseTwo), Some(UseCaseStale), Some(UseCaseTie)}]

UP_GHOUL == Txt("Ghoul")
UpliftNameLists ==
  {None} \cup
  {Some(names) :
     names \in SeqsUpTo({UP_DEFAULT, UP_RUSH, UP_GHOST, UP_GHOUL}, MaxNames)}

QuoteRequests ==
  {[kind |-> "quote",
    payload |-> Payload("sku", Some(code), Some(Int2Rat(30)), None, None, names)] :
     code \in {SKU_A, SKU_C}, names \in UpliftNameLists}
  \cup
  {[kind |-> "quote",
    payload |-> Payload("use_case", None, None, Some(uc), Some(Int2Rat(10)),
                        names)] :
     uc \in {UC_STARTUP, UC_RESEARCH}, names \in UpliftNameLists}

InitQuote == InitFresh({p.val : p \in {q \in Loads(QuoteResponses) : q.ok}})

NextQuote ==
  \/ \E req \in QuoteRequests : Request(FirstCaller, req)
  \/ Return(FirstCaller)

SpecQuote == InitQuote /\ [][NextQuote]_vars

\* The request, payload and answer of the caller whose quote is done.
Quoted(mode) ==
  /\ pc[FirstCaller] = "done"
  /\ request[FirstCaller].kind = "quote"
  /\ request[FirstCaller].payload.mode = mode
Asked == request[FirstCaller].payload
Got == response[FirstCaller]

\* The data invariant of the price list: every SKU's unit size is nonzero.
UnitsNonzero == \A k \in 1..Len(store.skus) : store.skus[k].v.unit # RZero

\* The discount entries that qualify for relative_units.
Qualifying(relative_units) ==
  {i \in 1..Len(store.volume_discounts) :
     RLe(store.volume_discounts[i].min_units, relative_units)}

\* C7 as stated: the discount applied is the largest fraction among the
\* qualifying entries, and is 0 exactly when no entry qualifies.
C7_LargestQualifyingFraction ==
  (Quoted("sku") /\ Got.status_code = 200) =>
    LET Q == Qualifying(Got.body.relative_units)
        applied == Got.body.discount_decimal
    IN  /\ (Q = {}) <=> (applied = RZero)
        /\ Q # {} =>
             /\ \E i \in Q : store.volume_discounts[i].discount_decimal = applied
             /\ \A i \in Q :
                  RLe(store.volume_discounts[i].discount_decimal, applied)

\* C7 amended: the discount applied is the largest of 0 and the fractions of
\* the qualifying entries, whatever the order of the thresholds.
C7_LargestOfZeroAndQualifying ==
  (Quoted("sku") /\ Got.status_code = 200) =>
    LET Q == Qualifying(Got.body.relative_units)
        applied == Got.body.discount_decimal
    IN  /\ RLe(RZero, applied)
        /\ \A i \in Q : RLe(store.volume_discounts[i].discount_decimal, applied)
        /\ \/ applied = RZero
           \/ \E i \in Q : store.volume_discounts[i].discount_decimal = applied
        /\ Q = {} => applied = RZero

\* A lower tier's larger fraction is applied although a higher tier qualifies.
C7_Witness ==
  /\ Quoted("sku") /\ Got.status_code = 200
  /\ \E i, j \in Qualifying(Got.body.relative_units) :
       /\ RLt(store.volume_discounts[i].min_units,
              store.volume_discounts[j].min_units)
       /\ RLt(store.volume_discounts[j].discount_decimal,
              store.volume_discounts[i].discount_decimal)
       /\ Got.body.discount_decimal = store.volume_discounts[i].discount_decimal

\* The uplift of the store named name, and the sum of a sequence of fractions.
UpliftNamed(name) ==
  CHOOSE u \in {store.uplifts[i].v : i \in 1..Len(store.uplifts)} :
    u.uplift_name = name
RECURSIVE SumSeq(_)
SumSeq(q) == IF q = <<>> THEN RZero ELSE RAdd(q[1], SumSeq(Tail(q)))

\* C8: with names given, any unknown name fails the quote with an error that
\* lists exactly the unknown names, and otherwise the named uplifts are applied
\* in input order, duplicates kept and summed, enabled or not; with names
\* absent exactly the enabled uplifts are applied.
C8_ResolveUplifts ==
  (Quoted("sku") /\ DictHas(store.skus, The(Asked.sku_code)) /\ UnitsNonzero) =>
    LET known == {store.uplifts[i].k : i \in 1..Len(store.uplifts)}
        enabled == {store.uplifts[i].v : i \in 1..Len(store.uplifts)}
                     \cap {u \in {store.uplifts[i].v : i \in 1..Len(store.uplifts)} :
                             u.enabled}
    IN  IF IsNone(Asked.uplift_names)
        THEN /\ Got.status_code = 200
             /\ {Got.body.applied_uplifts[i].uplift_name :
                   i \in 1..Len(Got.body.applied_uplifts)}
                  = {u.uplift_name : u \in enabled}
             /\ Len(Got.body.applied_uplifts) = Cardinality(enabled)
        ELSE LET names == The(Asked.uplift_names)
                 unknown == {i \in 1..Len(names) : names[i] \notin known}
             IN  IF unknown # {}
                 THEN /\ Got.status_code = 400
                      /\ Got.body[1] = "Unknown uplifts"
                      /\ {Got.body[2][j] : j \in 1..Len(Got.body[2])}
                           = {names[i] : i \in unknown}
                      /\ Len(Got.body[2]) = Cardinality(unknown)
                 ELSE /\ Got.status_code = 200
                      /\ Len(Got.body.applied_uplifts) = Len(names)
                      /\ \A i \in 1..Len(names) :
                           /\ Got.body.applied_uplifts[i].uplift_name = names[i]
                           /\ Got.body.applied_uplifts[i].percent_decimal
                                = UpliftNamed(names[i]).percent_decimal
                      /\ Got.body.uplift_decimal
                           = SumSeq([i \in 1..Len(names) |->
                                       UpliftNamed(names[i]).percent_decimal])

\* Two unknown names around a valid one are both reported.
C8_Witness ==
  /\ Quoted("sku")
  /\ Asked.uplift_names = Some(<<UP_GHOST, UP_DEFAULT, UP_GHOUL>>)
  /\ Got.status_code = 400
  /\ Got.body[2] = <<UP_GHOST, UP_GHOUL>>

\* The mapping rows a use-case quote retains: units_total > 0 and the SKU is in
\* the current SKU set.
UnitsTotal(i) ==
  RMul(DictGet(store.use_case_mappings[i].v, The(Asked.use_case)),
       The(Asked.hours))
Retained ==
  {i \in 1..Len(store.use_case_mappings) :
     /\ RLt(RZero, UnitsTotal(i))
     /\ \E k \in 1..Len(store.skus) :
          store.skus[k].k = store.use_case_mappings[i].k}

\* C9: a successful use-case quote has exactly one line per retained mapping
\* row, each costing the final_cost of that SKU's quote for units_total; the
\* grand total is the sum of the lines and the lines are in descending cost.
C9_UseCaseBreakdown ==
  (Quoted("use_case") /\ Got.status_code = 200) =>
    LET lines == Got.body.breakdown
    IN  /\ Len(lines) = Cardinality(Retained)
        /\ \A i \in Retained :
             \E j \in 1..Len(lines) :
               /\ lines[j].sku_code = store.use_case_mappings[i].k
               /\ lines[j].units_total = UnitsTotal(i)
               /\ lines[j].cost_usd =
                    _calculate_sku_quote(store, store.use_case_mappings[i].k,
                                         UnitsTotal(i),
                                         Asked.uplift_names).val.final_cost
        /\ Got.body.grand_total_usd
             = SumSeq([j \in 1..Len(lines) |-> lines[j].cost_usd])
        /\ \A j, k \in 1..Len(lines) :
             j < k => RLe(lines[k].cost_usd, lines[j].cost_usd)

\* Two lines whose order in the answer is not their order in the mapping table.
C9_Witness ==
  /\ Quoted("use_case") /\ Got.status_code = 200
  /\ Len(Got.body.breakdown) = 2
  /\ Len(store.use_case_mappings) = 3
  /\ Got.body.breakdown[1].sku_code = SKU_A
  /\ RLt(Got.body.breakdown[2].cost_usd, Got.body.breakdown[1].cost_usd)

\* The use case asked for is a column of the current mapping table.
AsksKnownUseCase ==
  \E i \in 1..Len(store.use_cases) : store.use_cases[i] = The(Asked.use_case)

\* Some requested uplift name is not in the current uplift set.
AsksUnknownUplift ==
  IF IsNone(Asked.uplift_names) THEN FALSE
  ELSE \E i \in 1..Len(The(Asked.uplift_names)) :
         \A k \in 1..Len(store.uplifts) :
           store.uplifts[k].k # The(Asked.uplift_names)[i]

=============================================================================
